---- MODULE Spec2Model ----
(***************************************************************************)
(* Model of the PyQInt integral engine (src/pyqint/integrals.cpp).         *)
(*                                                                         *)
(* The member functions of class Integrator that are modelled:            *)
(*   - teindex(i,j,k,l): the symmetry-compressed index (specification      *)
(*     SpecTeindex);                                                       *)
(*   - evaluate_cgfs(cgfs, charges, px, py, pz): matrix assembly with its  *)
(*     two OpenMP parallel phases (specification Spec);                    *)
(*   - the derivatives of contracted functions overlap_deriv,              *)
(*     kinetic_deriv, nuclear_deriv, repulsion_deriv (SpecDeriv);          *)
(*   - binomial_prefactor and binomial (SpecBinomial);                     *)
(*   - the orders of Fgamma asked for by the primitive kernels             *)
(*     (SpecFgamma);                                                       *)
(*   - kinetic of two primitives with overlap_1D (SpecKinetic);            *)
(*   - A_array, A_array_deriv, B_array and their readers (SpecArrays).     *)
(*                                                                         *)
(* size_t values are 64-bit unsigned integers.  They are represented as    *)
(* little-endian digit strings (SzLimbs digits of base SzBase) so that the *)
(* arithmetic wraps modulo 2^64 exactly as in the program.                 *)
(***************************************************************************)
EXTENDS Integers, Sequences, FiniteSets, TLC

\* ------------------------------------------------------------------ bounds
MaxN == 2          \* largest basis-set size (cgfs.size())
MaxCharges == 1    \* largest length of charges, px, py and pz
NumWorkers == 2    \* threads of the OpenMP team
MaxIdx == 3        \* largest small index handed to teindex directly

\* ------------------------------------------------- size_t (64-bit) numbers
SzLimbs == 8
SzBase == 256

Limbs == 1 .. SzLimbs

\* base^p for p in 0..3 (the only powers that are needed as plain integers)
SzPow(p) == IF p = 0 THEN 1 ELSE IF p = 1 THEN SzBase
            ELSE IF p = 2 THEN SzBase * SzBase ELSE SzBase * SzBase * SzBase

RECURSIVE SzDigits(_, _)
SzDigits(n, p) ==
    IF p > SzLimbs THEN <<>> ELSE <<n % SzBase>> \o SzDigits(n \div SzBase, p + 1)

\* conversion of a small non-negative integer to size_t (digit 1 is the lowest)
SzOf(n) == SzDigits(n, 1)

SzZero == SzOf(0)
SzOne == SzOf(1)

RECURSIVE SzOnes(_)
SzOnes(p) == IF p > SzLimbs THEN <<>> ELSE <<SzBase - 1>> \o SzOnes(p + 1)

\* (size_t) -1, i.e. 2^64 - 1
SzAllOnes == SzOnes(1)

RECURSIVE SzAddFrom(_, _, _, _)
SzAddFrom(a, b, p, carry) ==
    IF p > SzLimbs THEN <<>>
    ELSE LET t == a[p] + b[p] + carry
         IN  <<t % SzBase>> \o SzAddFrom(a, b, p + 1, t \div SzBase)

\* a + b modulo 2^64
SzAdd(a, b) == SzAddFrom(a, b, 1, 0)

\* a - 1 that stops at 0
SzDec_saturating(a) == IF a = SzZero THEN SzZero ELSE SzAdd(a, SzAllOnes)

\* a - 1 modulo 2^64
SzDec(a) == SzAdd(a, SzAllOnes)

RECURSIVE SzColumn(_, _, _, _)
SzColumn(a, b, p, q) ==
    IF q > p THEN 0 ELSE a[q] * b[p + 1 - q] + SzColumn(a, b, p, q + 1)

RECURSIVE SzMulFrom(_, _, _, _)
SzMulFrom(a, b, p, carry) ==
    IF p > SzLimbs THEN <<>>
    ELSE LET t == SzColumn(a, b, p, 1) + carry
         IN  <<t % SzBase>> \o SzMulFrom(a, b, p + 1, t \div SzBase)

\* a * b modulo 2^64 (schoolbook multiplication, high digits dropped)
SzMul(a, b) == SzMulFrom(a, b, 1, 0)

RECURSIVE SzHalfFrom(_, _)
SzHalfFrom(a, p) ==
    IF p > SzLimbs THEN <<>>
    ELSE <<(a[p] \div 2)
           + (IF p < SzLimbs THEN (a[p+1] % 2) * (SzBase \div 2) ELSE 0)>>
         \o SzHalfFrom(a, p + 1)

\* a / 2 (unsigned integer division)
SzHalf(a) == SzHalfFrom(a, 1)

\* a < b, a <= b on size_t
SzLt(a, b) == \E p \in Limbs : a[p] < b[p] /\ \A q \in Limbs : q > p => a[q] = b[q]
SzLe(a, b) == ~ SzLt(b, a)

\* the value as a plain integer, for values below 2^31
SzFits(a) == (\A p \in Limbs : p > 4 => a[p] = 0) /\ a[4] < SzBase \div 2
SzNat(a) == a[1] + a[2] * SzPow(1) + a[3] * SzPow(2) + a[4] * SzPow(3)

\* ---------------------------------------------------------------- teindex
\* i * (i + 1) / 2 + j in size_t arithmetic
Compound(i, j) == SzAdd(SzHalf(SzMul(i, SzAdd(i, SzOne))), j)

\* teindex with the first swap (i < j) left out
teindex_noswap(i, j, k, l) ==
    LET k1 == IF SzLt(k, l) THEN l ELSE k
        l1 == IF SzLt(k, l) THEN k ELSE l
        ij == Compound(i, j)
        kl == Compound(k1, l1)
        ij2 == IF SzLt(ij, kl) THEN kl ELSE ij
        kl2 == IF SzLt(ij, kl) THEN ij ELSE kl
    IN  Compound(ij2, kl2)

\* teindex with ij * (ij - 1) / 2 + kl as the final key
teindex_offbyone(i, j, k, l) ==
    LET i1 == IF SzLt(i, j) THEN j ELSE i
        j1 == IF SzLt(i, j) THEN i ELSE j
        k1 == IF SzLt(k, l) THEN l ELSE k
        l1 == IF SzLt(k, l) THEN k ELSE l
        ij == Compound(i1, j1)
        kl == Compound(k1, l1)
        ij2 == IF SzLt(ij, kl) THEN kl ELSE ij
        kl2 == IF SzLt(ij, kl) THEN ij ELSE kl
    IN  SzAdd(SzHalf(SzMul(ij2, SzDec(ij2))), kl2)

teindex(i, j, k, l) ==
    LET i1 == IF SzLt(i, j) THEN j ELSE i
        j1 == IF SzLt(i, j) THEN i ELSE j
        k1 == IF SzLt(k, l) THEN l ELSE k
        l1 == IF SzLt(k, l) THEN k ELSE l
        ij == Compound(i1, j1)
        kl == Compound(k1, l1)
        ij2 == IF SzLt(ij, kl) THEN kl ELSE ij
        kl2 == IF SzLt(ij, kl) THEN ij ELSE kl
    IN  Compound(ij2, kl2)

\* ------------------------------------------------------------------ state
VARIABLES
    te_pc, te_args, te_ret,     \* a direct call of teindex
    call_pc,                    \* a direct call of one of the integral kernels:
    call_fn,                    \*   the member function called,
    call_args,                  \*   its arguments,
    call_trace,                 \*   the calls it made of the functions below it,
    call_ret,                   \*   the value it returned
    pc,                         \* position inside evaluate_cgfs
    sz,                         \* cgfs.size()
    ncharges,                   \* charges.size()
    pxlen, pylen, pzlen,        \* px.size(), py.size(), pz.size()
    junk,                       \* what lies behind the end of a position vector
    oob,                        \* a position vector was read beyond its end
    S, T, V, Vn,                \* the matrices
    next_iter,                  \* shared iteration counter of the running parallel for
    running,                    \* the iterations that threads of the team are executing,
                                \* each with the statement its thread has reached
    acc,                        \* accesses of pair-phase iterations to matrix cells
    tedouble,                   \* the two-electron array (slot idx is element idx + 1)
    jobs,                       \* the job list
    ci, cj, ck, cl,             \* loop variables i, j, k, l of the job loop
    jstage,                     \* statement reached inside the innermost loop body
    jkey,                       \* the local idx of the innermost loop body (line 87)
    te_acc,                     \* writes of repulsion tasks to tedouble
    results                     \* the returned vector

tvars == <<te_pc, te_args, te_ret>>
inputs == <<sz, ncharges, pxlen, pylen, pzlen, junk>>
mats == <<S, T, V, Vn>>
cursor == <<ci, cj, ck, cl, jstage, jkey>>
evars == <<pc, inputs, oob, mats, next_iter, running, acc, tedouble, jobs, cursor,
           te_acc, results>>
\* the variables of the entry points other than evaluate_cgfs
cvars == <<call_pc, call_fn, call_args, call_trace, call_ret>>
ovars == <<tvars, cvars>>
vars == <<ovars, evars>>

\* ---------------------------------------------------------- kernel values
\* The numeric kernels are pure functions of their operands.  Their values
\* are represented by integers that identify the operands, so that
\* overlap(cgfs[i], cgfs[j]) and overlap(cgfs[j], cgfs[i]) are told apart.
overlapVal(i, j) == 100 + 10 * i + j
kineticVal(i, j) == 200 + 10 * i + j
nuclearVal(i, j, k, pos) == 1000 + 100 * k + 10 * i + j + pos
repulsionVal(i, j, k, l) == 10000 + 1000 * i + 100 * j + 10 * k + l

\* initial fill of tedouble and the mark written for a key that was seen
Sentinel == -1
Marker == 1

\* values a read behind the end of px, py or pz can produce
JunkVals == {0, 5}

Cells(n) == (0 .. n - 1) \X (0 .. n - 1)
ZeroMatrix(n) == [c \in Cells(n) |-> 0]

\* a thread of the team is free
FreeThread == Cardinality(running) < NumWorkers

\* neither entry point is active
TeIdle == te_pc = "none" /\ te_args = <<SzZero, SzZero, SzZero, SzZero>> /\ te_ret = SzZero

CallIdle ==
    /\ call_pc = "none" /\ call_fn = "none" /\ call_args = <<>>
    /\ call_trace = {} /\ call_ret = "none"

EvIdle ==
    /\ pc = "none"
    /\ sz = 0 /\ ncharges = 0 /\ pxlen = 0 /\ pylen = 0 /\ pzlen = 0 /\ junk = 0
    /\ oob = FALSE
    /\ S = <<>> /\ T = <<>> /\ V = <<>> /\ Vn = <<>>
    /\ next_iter = 0
    /\ running = {}
    /\ acc = {}
    /\ tedouble = <<>>
    /\ jobs = <<>>
    /\ ci = 0 /\ cj = 0 /\ ck = 0 /\ cl = 0
    /\ jstage = "loop" /\ jkey = SzZero
    /\ te_acc = {}
    /\ results = <<>>

\* ------------------------------------------------------- teindex, called
\* arguments of a direct teindex call: small indices and (size_t) -1
TeArgs == { SzOf(n) : n \in 0 .. MaxIdx } \cup { SzAllOnes }

TeInit ==
    /\ te_pc = "call"
    /\ te_args \in TeArgs \X TeArgs \X TeArgs \X TeArgs
    /\ te_ret = SzZero
    /\ CallIdle
    /\ EvIdle

TeindexCall ==
    /\ te_pc = "call"
    /\ te_ret' = teindex(te_args[1], te_args[2], te_args[3], te_args[4])
    /\ te_pc' = "returned"
    /\ UNCHANGED <<te_args, cvars, evars>>

TeNext == TeindexCall

SpecTeindex == TeInit /\ [][TeNext]_vars

\* ------------------------------------- derivatives of contracted functions
\* Centres of basis functions and nuclei are points 0 .. MaxCentre of a line,
\* one bohr apart; a contracted function has up to MaxPrim primitives.
MaxCentre == 1
MaxPrim == 2
Centres == 0 .. MaxCentre
Sizes == 0 .. MaxPrim

\* (r - nucleus).squaredNorm() < 0.0001
Attached(r, nucleus) == 10000 * ((r - nucleus) * (r - nucleus)) < 1

\* cgfN.get_gto(p)
Prim(c, p) == <<c, p>>

\* the evaluation of primitive kernel f for the variable t1, t2, ... numbered
\* t, with the primitives a in argument order, in the pass `at' of the loops
Eval(f, t, a, at) == [fn |-> f, t |-> t, args |-> a, at |-> at]

\* the sum of the terms is exactly 0.0 when no primitive kernel contributed
ReturnOf(terms) == IF terms = {} THEN "0.0" ELSE "sum"

\* if(cgf1_nuc == cgf2_nuc) return 0.0;   (lines 177 and 290)
EarlyExit2_neither(cgf1_nuc, cgf2_nuc) == ~ cgf1_nuc /\ ~ cgf2_nuc
EarlyExit2(cgf1_nuc, cgf2_nuc) == cgf1_nuc = cgf2_nuc

\* the primitive kernels evaluated by overlap_deriv and kinetic_deriv
PairDerivTerms(f, cgf1_nuc, cgf2_nuc, size1, size2) ==
    IF EarlyExit2(cgf1_nuc, cgf2_nuc) THEN {}
    ELSE UNION { (IF cgf1_nuc
                  THEN {Eval(f, 1, <<Prim(1, kl[1]), Prim(2, kl[2])>>, kl)}
                  ELSE {})
                 \cup
                 (IF cgf2_nuc
                  THEN {Eval(f, 2, <<Prim(2, kl[2]), Prim(1, kl[1])>>, kl)}
                  ELSE {})
                 : kl \in (0 .. size1 - 1) \X (0 .. size2 - 1) }

\* overlap_deriv(cgf1, cgf2, nucleus, coord)
OverlapDeriv ==
    /\ call_pc = "call"
    /\ call_fn = "overlap_deriv"
    /\ call_trace' = PairDerivTerms("overlap_deriv",
                                    Attached(call_args.r[1], call_args.nucleus),
                                    Attached(call_args.r[2], call_args.nucleus),
                                    call_args.size[1], call_args.size[2])
    /\ call_ret' = ReturnOf(call_trace')
    /\ call_pc' = "returned"
    /\ UNCHANGED <<tvars, evars, call_fn, call_args>>

\* kinetic_deriv(cgf1, cgf2, nucleus, coord)
KineticDeriv ==
    /\ call_pc = "call"
    /\ call_fn = "kinetic_deriv"
    /\ call_trace' = PairDerivTerms("kinetic_deriv",
                                    Attached(call_args.r[1], call_args.nucleus),
                                    Attached(call_args.r[2], call_args.nucleus),
                                    call_args.size[1], call_args.size[2])
    /\ call_ret' = ReturnOf(call_trace')
    /\ call_pc' = "returned"
    /\ UNCHANGED <<tvars, evars, call_fn, call_args>>

\* the conditions of the three terms of nuclear_deriv (lines 445, 446, 449)
T1Taken_exclusive(n1, n2) == n1 /\ ~ n2
T1Taken(n1, n2) == n1
T2Taken(n1, n2) == n2
T3Taken_always(n3) == TRUE
T3Taken(n3) == n3

\* nuclear_deriv(cgf1, cgf2, nucleus, charge, nucderiv, coord): no early exit
NuclearDeriv ==
    LET n1 == Attached(call_args.r[1], call_args.nucderiv)
        n2 == Attached(call_args.r[2], call_args.nucderiv)
        n3 == Attached(call_args.nucleus, call_args.nucderiv)
    IN
    /\ call_pc = "call"
    /\ call_fn = "nuclear_deriv"
    /\ call_trace' =
          UNION { (IF T1Taken(n1, n2)
                   THEN {Eval("nuclear_deriv_bf", 1, <<Prim(1, kl[1]), Prim(2, kl[2])>>, kl)}
                   ELSE {})
                  \cup
                  (IF T2Taken(n1, n2)
                   THEN {Eval("nuclear_deriv_bf", 2, <<Prim(2, kl[2]), Prim(1, kl[1])>>, kl)}
                   ELSE {})
                  \cup
                  (IF T3Taken(n3)
                   THEN {Eval("nuclear_deriv_op", 3, <<Prim(1, kl[1]), Prim(2, kl[2])>>, kl)}
                   ELSE {})
                  : kl \in (0 .. call_args.size[1] - 1) \X (0 .. call_args.size[2] - 1) }
    /\ call_ret' = ReturnOf(call_trace')
    /\ call_pc' = "returned"
    /\ UNCHANGED <<tvars, evars, call_fn, call_args>>

\* if(cgf1_nuc == cgf2_nuc && cgf2_nuc == cgf3_nuc && cgf3_nuc == cgf4_nuc)
\*     return 0.0;                                              (line 585)
EarlyExit4(nuc) == nuc[1] = nuc[2] /\ nuc[2] = nuc[3] /\ nuc[3] = nuc[4]

\* the operands, in argument order, of the primitive repulsion_deriv that
\* gives t1, t2, t3 and t4 (lines 603-606)
RepDerivOrder_copied(t) ==
    IF t = 1 THEN <<1, 2, 3, 4>>
    ELSE IF t = 2 THEN <<2, 1, 3, 4>>
    ELSE <<3, 4, 1, 2>>
RepDerivOrder(t) ==
    IF t = 1 THEN <<1, 2, 3, 4>>
    ELSE IF t = 2 THEN <<2, 1, 3, 4>>
    ELSE IF t = 3 THEN <<3, 4, 1, 2>>
    ELSE <<4, 3, 1, 2>>

\* repulsion_deriv(cgf1, cgf2, cgf3, cgf4, nucleus, coord)
RepulsionDeriv ==
    LET nuc == [c \in 1 .. 4 |-> Attached(call_args.r[c], call_args.nucleus)]
        size == call_args.size
    IN
    /\ call_pc = "call"
    /\ call_fn = "repulsion_deriv"
    /\ call_trace' =
          IF EarlyExit4(nuc) THEN {}
          ELSE { Eval("repulsion_deriv", x[2],
                      [n \in 1 .. 4 |-> Prim(RepDerivOrder(x[2])[n], x[1][RepDerivOrder(x[2])[n]])],
                      x[1])
                 : x \in { y \in ((0 .. size[1] - 1) \X (0 .. size[2] - 1) \X
                                  (0 .. size[3] - 1) \X (0 .. size[4] - 1)) \X (1 .. 4) :
                           nuc[y[2]] } }
    /\ call_ret' = ReturnOf(call_trace')
    /\ call_pc' = "returned"
    /\ UNCHANGED <<tvars, evars, call_fn, call_args>>

DerivFns == {"overlap_deriv", "kinetic_deriv", "nuclear_deriv", "repulsion_deriv"}

\* the arguments of a call of f that the outcome depends on
DerivArgs(f) ==
    IF f = "repulsion_deriv"
    THEN [r : Centres \X Centres \X Centres \X Centres,
          size : Sizes \X Sizes \X Sizes \X Sizes,
          nucleus : Centres]
    ELSE IF f = "nuclear_deriv"
    THEN [r : Centres \X Centres, size : Sizes \X Sizes,
          nucleus : Centres, nucderiv : Centres]
    ELSE [r : Centres \X Centres, size : Sizes \X Sizes, nucleus : Centres]

DerivInit ==
    /\ call_pc = "call"
    /\ call_fn \in DerivFns
    /\ call_args \in DerivArgs(call_fn)
    /\ call_trace = {}
    /\ call_ret = "none"
    /\ TeIdle
    /\ EvIdle

DerivNext ==
    \/ OverlapDeriv
    \/ KineticDeriv
    \/ NuclearDeriv
    \/ RepulsionDeriv

SpecDeriv == DerivInit /\ [][DerivNext]_vars

\* ------------------------------------------------------ binomial_prefactor
\* largest |ia|, |ib| tried; s runs to ia + ib at most
MaxIa == 3

\* binomial(a, b) leaves through its first return, with 1.0 (line 774)
BinomialFallback(a, b) == (a < 0) \/ (b < 0) \/ (a - b < 0)

\* the condition of line 762 on the loop variable t
BpTaken_upper(s, ia, ib, t) == t <= ib
BpTaken_lower(s, ia, ib, t) == s - ia <= t
BpTaken(s, ia, ib, t) == (s - ia <= t) /\ (t <= ib)

\* binomial_prefactor(s, ia, ib, xpa, xpb): the terms added to sum, each with
\* the arguments of its two calls of binomial
BinomialPrefactor ==
    LET s == call_args.s  ia == call_args.ia  ib == call_args.ib IN
    /\ call_pc = "call"
    /\ call_fn = "binomial_prefactor"
    /\ call_trace' = { [t |-> t,
                        first |-> <<ia, s - t>>,
                        second |-> <<ib, t>>,
                        fallback |-> BinomialFallback(ia, s - t) \/ BinomialFallback(ib, t)]
                       : t \in { u \in 0 .. s : BpTaken(s, ia, ib, u) } }
    /\ call_ret' = ReturnOf(call_trace')
    /\ call_pc' = "returned"
    /\ UNCHANGED <<tvars, evars, call_fn, call_args>>

BpInit ==
    /\ call_pc = "call"
    /\ call_fn = "binomial_prefactor"
    /\ call_args \in [s : 0 .. 2 * MaxIa, ia : -MaxIa .. MaxIa, ib : -MaxIa .. MaxIa]
    /\ call_trace = {}
    /\ call_ret = "none"
    /\ TeIdle
    /\ EvIdle

BpNext == BinomialPrefactor

SpecBinomial == BpInit /\ [][BpNext]_vars

\* -------------------------------------------- orders of the Boys function
\* largest total angular momentum l + m + n of a primitive handed to a kernel
MaxL == 1

\* the angular triples <<l, m, n>> of the primitives tried
AngTriples ==
    { g \in (0 .. MaxL) \X (0 .. MaxL) \X (0 .. MaxL) : g[1] + g[2] + g[3] <= MaxL }

\* gto_ang[coord] += d
Shift_twice(g, coord, d) == [g EXCEPT ![coord + 1] = @ + 2 * d]
Shift(g, coord, d) == [g EXCEPT ![coord + 1] = @ + d]

\* the orders of the calls Fgamma(i+j+k, ..) of the primitive nuclear (line 801)
NuclearOrders(g1, g2) ==
    { i + j + k : i \in 0 .. g1[1] + g2[1], j \in 0 .. g1[2] + g2[2],
                  k \in 0 .. g1[3] + g2[3] }

\* the orders of the calls Fgamma(i+j+k+1, ..) and Fgamma(i+j+k, ..) of
\* nuclear_deriv_op (lines 846-859)
NuclearDerivOpOrders(g1, g2, coord) ==
    LET itmax == <<g1[1] + g2[1], g1[2] + g2[2], g1[3] + g2[3]>>
        v0 == coord
        v1 == (coord + 1) % 3
        v2 == (coord + 2) % 3
    IN  UNION { {i + j + k + 1, i + j + k} :
                i \in 0 .. itmax[v0 + 1], j \in 0 .. itmax[v1 + 1], k \in 0 .. itmax[v2 + 1] }

\* nuclear_deriv_bf: nuclear with gto1 raised and, unless gto_ang[coord] is 0,
\* with gto1 lowered (lines 489-507)
NuclearDerivBfOrders(g1, g2, coord) ==
    IF g1[coord + 1] # 0
    THEN NuclearOrders(Shift(g1, coord, 1), g2) \cup NuclearOrders(Shift(g1, coord, -1), g2)
    ELSE NuclearOrders(Shift(g1, coord, 1), g2)

\* the orders of the calls Fgamma(i+j+k, ..) of the primitive repulsion (line 938)
RepulsionOrders(g1, g2, g3, g4) ==
    { i + j + k : i \in 0 .. g1[1] + g2[1] + g3[1] + g4[1],
                  j \in 0 .. g1[2] + g2[2] + g3[2] + g4[2],
                  k \in 0 .. g1[3] + g2[3] + g3[3] + g4[3] }

\* the primitive repulsion_deriv: repulsion with gto1 raised and, unless
\* gto_ang[coord] is 0, with gto1 lowered (lines 653-678)
RepulsionDerivOrders(g1, g2, g3, g4, coord) ==
    IF g1[coord + 1] # 0
    THEN RepulsionOrders(Shift(g1, coord, 1), g2, g3, g4)
         \cup RepulsionOrders(Shift(g1, coord, -1), g2, g3, g4)
    ELSE RepulsionOrders(Shift(g1, coord, 1), g2, g3, g4)

\* a call of one of the kernels over two primitives
Nuclear ==
    LET g == call_args.ang  coord == call_args.coord IN
    /\ call_pc = "call"
    /\ call_fn \in {"nuclear", "nuclear_deriv_bf", "nuclear_deriv_op"}
    /\ call_trace' = IF call_fn = "nuclear" THEN NuclearOrders(g[1], g[2])
                     ELSE IF call_fn = "nuclear_deriv_bf"
                     THEN NuclearDerivBfOrders(g[1], g[2], coord)
                     ELSE NuclearDerivOpOrders(g[1], g[2], coord)
    /\ call_ret' = "sum"
    /\ call_pc' = "returned"
    /\ UNCHANGED <<tvars, evars, call_fn, call_args>>

\* a call of one of the kernels over four primitives
Repulsion ==
    LET g == call_args.ang  coord == call_args.coord IN
    /\ call_pc = "call"
    /\ call_fn \in {"repulsion", "repulsion_deriv_gto"}
    /\ call_trace' = IF call_fn = "repulsion" THEN RepulsionOrders(g[1], g[2], g[3], g[4])
                     ELSE RepulsionDerivOrders(g[1], g[2], g[3], g[4], coord)
    /\ call_ret' = "sum"
    /\ call_pc' = "returned"
    /\ UNCHANGED <<tvars, evars, call_fn, call_args>>

FgFns == {"nuclear", "nuclear_deriv_bf", "nuclear_deriv_op", "repulsion",
          "repulsion_deriv_gto"}

\* the arguments of a call of f that the orders depend on
FgArgs(f) ==
    [ang : IF f \in {"repulsion", "repulsion_deriv_gto"}
           THEN AngTriples \X AngTriples \X AngTriples \X AngTriples
           ELSE AngTriples \X AngTriples,
     coord : IF f \in {"nuclear", "repulsion"} THEN {0} ELSE 0 .. 2]

FgInit ==
    /\ call_pc = "call"
    /\ call_fn \in FgFns
    /\ call_args \in FgArgs(call_fn)
    /\ call_trace = {}
    /\ call_ret = "none"
    /\ TeIdle
    /\ EvIdle

FgNext ==
    \/ Nuclear
    \/ Repulsion

SpecFgamma == FgInit /\ [][FgNext]_vars

\* ------------------------------------------------- kinetic of primitives
\* largest power of x, y or z of a primitive handed to kinetic
MaxAxisL == 2

\* unsigned int (32 bits): the low half of the 64-bit digits
U32(a) == <<a[1], a[2], a[3], a[4], 0, 0, 0, 0>>

\* a - b and a * b in unsigned int arithmetic
U32Sub(a, b) == U32(SzAdd(a, SzMul(b, SzAllOnes)))
U32Mul(a, b) == U32(SzMul(a, b))

\* the int a parameter of type int receives from an unsigned int argument
IntOfU32(a) ==
    (IF a[4] >= SzBase \div 2 THEN a[4] - SzBase ELSE a[4]) * SzPow(3)
    + a[3] * SzPow(2) + a[2] * SzPow(1) + a[1]

\* the values of i for which the loop of overlap_1D runs its body:
\* i < 1 + floor(0.5 * (l1 + l2))                                (line 732)
Overlap1DPasses(l1, l2) == { i \in 0 .. l1 + l2 : i < 1 + ((l1 + l2) \div 2) }

\* overlap_1D(l1, l2, ..): the passes of its loop, the terms <<i, t>> that
\* binomial_prefactor(2*i, l1, l2, ..) adds in them, and whether one of the
\* calls of binomial leaves through its return of 1.0
Overlap1D(l1, l2) ==
    LET terms == { it \in Overlap1DPasses(l1, l2) \X (0 .. l1 + l2) :
                      /\ it[2] < 2 * it[1] + 1
                      /\ BpTaken(2 * it[1], l1, l2, it[2]) }
    IN  [l1 |-> l1, l2 |-> l2,
         passes |-> Overlap1DPasses(l1, l2),
         terms |-> terms,
         fallback |-> \E it \in terms :
                          \/ BinomialFallback(l1, 2 * it[1] - it[2])
                          \/ BinomialFallback(l2, it[2]),
         ret |-> ReturnOf(terms)]

\* overlap(alpha1, l1, m1, n1, a, alpha2, l2, m2, n2, b) with unsigned int
\* angular momenta: the three calls of overlap_1D (lines 707-709)
Overlap3(g1, u2) ==
    [n \in 1 .. 3 |-> Overlap1D(IntOfU32(SzOf(g1[n])), IntOfU32(u2[n]))]

\* kinetic(gto1, gto2): the overlaps of term0, term1 and term2 (lines 375-389)
Kinetic ==
    LET g1 == call_args.g1
        g2 == [n \in 1 .. 3 |-> SzOf(call_args.g2[n])]
    IN
    /\ call_pc = "call"
    /\ call_fn = "kinetic"
    /\ call_trace' =
          { [term |-> "term0", axis |-> 0, coef |-> SzOne, arg |-> g2,
             w |-> Overlap3(g1, g2)] }
          \cup
          { [term |-> "term1", axis |-> n, coef |-> SzOne,
             arg |-> [g2 EXCEPT ![n] = U32(SzAdd(g2[n], SzOf(2)))],
             w |-> Overlap3(g1, [g2 EXCEPT ![n] = U32(SzAdd(g2[n], SzOf(2)))])]
            : n \in 1 .. 3 }
          \cup
          { [term |-> "term2", axis |-> n,
             coef |-> U32Mul(g2[n], U32Sub(g2[n], SzOne)),
             arg |-> [g2 EXCEPT ![n] = U32Sub(g2[n], SzOf(2))],
             w |-> Overlap3(g1, [g2 EXCEPT ![n] = U32Sub(g2[n], SzOf(2))])]
            : n \in 1 .. 3 }
    /\ call_ret' = "sum"
    /\ call_pc' = "returned"
    /\ UNCHANGED <<tvars, evars, call_fn, call_args>>

KinInit ==
    /\ call_pc = "call"
    /\ call_fn = "kinetic"
    /\ call_args \in [g1 : (0 .. MaxAxisL) \X (0 .. MaxAxisL) \X (0 .. MaxAxisL),
                      g2 : (0 .. MaxAxisL) \X (0 .. MaxAxisL) \X (0 .. MaxAxisL)]
    /\ call_trace = {}
    /\ call_ret = "none"
    /\ TeIdle
    /\ EvIdle

KinNext == Kinetic

SpecKinetic == KinInit /\ [][KinNext]_vars

\* ------------------------------------------ the arrays of A and B terms
\* an access to element idx of the array `arr` of the given axis and size
Elem(arr, axis, size, idx, wr) ==
    [arr |-> arr, axis |-> axis, size |-> size, idx |-> idx, wr |-> wr]

\* last value of u in the loops of A_array and A_array_deriv:
\* u <= (i - 2*r) / 2                                    (lines 873, 889)
AULast_plus1(i, r) == (i - 2 * r) \div 2 + 1
AULast(i, r) == (i - 2 * r) \div 2

\* A_array(l1, l2, ..): arrA[i - 2*r - u] += ...         (lines 867-881)
AArrayWrites(arr, axis, l1, l2) ==
    LET imax == l1 + l2 + 1 IN
    UNION { UNION { { Elem(arr, axis, imax, i - 2 * r - u, TRUE) : u \in 0 .. AULast(i, r) }
                    : r \in 0 .. i \div 2 }
            : i \in 0 .. imax - 1 }

\* A_array_deriv(l1, l2, ..): the element is written when the power of cp
\* is not 0 and cp is not 0.0                            (lines 883-904)
AArrayDerivWrites(arr, axis, l1, l2, cpzero) ==
    LET imax == l1 + l2 + 1 IN
    UNION { UNION { { Elem(arr, axis, imax, i - 2 * r - u, TRUE)
                      : u \in { w \in 0 .. AULast(i, r) :
                                  i - 2 * r - 2 * w # 0 /\ ~ cpzero } }
                    : r \in 0 .. i \div 2 }
            : i \in 0 .. imax - 1 }

\* B_array(l1, l2, l3, l4, ..): arrB[i1+i2-2*(r1+r2)-u] += ...  (lines 948-969)
BArrayWrites(arr, axis, l1, l2, l3, l4) ==
    LET imax == l1 + l2 + l3 + l4 + 1 IN
    UNION { UNION { { Elem(arr, axis, imax, x[1] + x[2] - 2 * (rr[1] + rr[2]) - u, TRUE)
                      : u \in { w \in 0 .. (x[1] + x[2]) \div 2 :
                                  w < (x[1] + x[2]) \div 2 - rr[1] - rr[2] + 1 } }
                    : rr \in { y \in (0 .. x[1] \div 2) \X (0 .. x[2] \div 2) :
                                 y[1] < x[1] \div 2 + 1 /\ y[2] < x[2] \div 2 + 1 } }
            : x \in (0 .. l1 + l2) \X (0 .. l3 + l4) }

\* the elements of an array of the given size read by a loop i = 0 .. last
LoopReads(arr, axis, size, last) == { Elem(arr, axis, size, i, FALSE) : i \in 0 .. last }

\* nuclear(a, l1, m1, n1, .., b, l2, m2, n2, .., c): ax, ay, az are built and
\* read (lines 791-801)
NuclearArrays ==
    LET g1 == call_args.ang[1]  g2 == call_args.ang[2] IN
    /\ call_pc = "call"
    /\ call_fn = "nuclear"
    /\ call_trace' =
          UNION { AArrayWrites(<<"ax", "ay", "az">>[n], n, g1[n], g2[n])
                  \cup LoopReads(<<"ax", "ay", "az">>[n], n, g1[n] + g2[n] + 1, g1[n] + g2[n])
                  : n \in 1 .. 3 }
    /\ call_ret' = "sum"
    /\ call_pc' = "returned"
    /\ UNCHANGED <<tvars, evars, call_fn, call_args>>

\* nuclear_deriv_op(.., coord): ax, ay, az and ad are built; v[v0][i] and
\* ad[i] are read for i <= itmax[v0], v[v1][j] and v[v2][k] for j <= itmax[v1]
\* and k <= itmax[v2] (lines 821-859)
NuclearDerivOpArrays ==
    LET g1 == call_args.ang[1]  g2 == call_args.ang[2]
        coord == call_args.coord
        itmax == <<g1[1] + g2[1], g1[2] + g2[2], g1[3] + g2[3]>>
        v0 == coord
        v1 == (coord + 1) % 3
        v2 == (coord + 2) % 3
        v == <<"ax", "ay", "az">>
    IN
    /\ call_pc = "call"
    /\ call_fn = "nuclear_deriv_op"
    /\ call_trace' =
          UNION { AArrayWrites(v[n], n, g1[n], g2[n]) : n \in 1 .. 3 }
          \cup AArrayDerivWrites("ad", coord + 1, g1[coord + 1], g2[coord + 1],
                                 call_args.cpzero)
          \cup LoopReads(v[v0 + 1], v0 + 1, itmax[v0 + 1] + 1, itmax[v0 + 1])
          \cup LoopReads("ad", coord + 1, itmax[coord + 1] + 1, itmax[v0 + 1])
          \cup LoopReads(v[v1 + 1], v1 + 1, itmax[v1 + 1] + 1, itmax[v1 + 1])
          \cup LoopReads(v[v2 + 1], v2 + 1, itmax[v2 + 1] + 1, itmax[v2 + 1])
    /\ call_ret' = "sum"
    /\ call_pc' = "returned"
    /\ UNCHANGED <<tvars, evars, call_fn, call_args>>

\* repulsion(a, la, ma, na, .., d, ld, md, nd, ..): bx, by, bz are built and
\* read (lines 930-938)
RepulsionArrays ==
    LET g == call_args.ang IN
    /\ call_pc = "call"
    /\ call_fn = "repulsion"
    /\ call_trace' =
          UNION { BArrayWrites(<<"bx", "by", "bz">>[n], n, g[1][n], g[2][n], g[3][n], g[4][n])
                  \cup LoopReads(<<"bx", "by", "bz">>[n], n,
                                 g[1][n] + g[2][n] + g[3][n] + g[4][n] + 1,
                                 g[1][n] + g[2][n] + g[3][n] + g[4][n])
                  : n \in 1 .. 3 }
    /\ call_ret' = "sum"
    /\ call_pc' = "returned"
    /\ UNCHANGED <<tvars, evars, call_fn, call_args>>

ArrFns == {"nuclear", "nuclear_deriv_op", "repulsion"}

\* the arguments of a call of f that the indices depend on
ArrArgs(f) ==
    [ang : IF f = "repulsion"
           THEN AngTriples \X AngTriples \X AngTriples \X AngTriples
           ELSE AngTriples \X AngTriples,
     coord : IF f = "nuclear_deriv_op" THEN 0 .. 2 ELSE {0},
     cpzero : IF f = "nuclear_deriv_op" THEN BOOLEAN ELSE {FALSE}]

ArrInit ==
    /\ call_pc = "call"
    /\ call_fn \in ArrFns
    /\ call_args \in ArrArgs(call_fn)
    /\ call_trace = {}
    /\ call_ret = "none"
    /\ TeIdle
    /\ EvIdle

ArrNext ==
    \/ NuclearArrays
    \/ NuclearDerivOpArrays
    \/ RepulsionArrays

SpecArrays == ArrInit /\ [][ArrNext]_vars

\* --------------------------------------------------------- evaluate_cgfs
\* lengths of a position vector tried with n charges: equal to n, longer, or
\* one entry short
PosLens(n) == { m \in 0 .. MaxCharges : m + 1 >= n }

Init ==
    /\ TeIdle
    /\ CallIdle
    /\ pc = "call"
    /\ sz \in 0 .. MaxN
    /\ ncharges \in 0 .. MaxCharges
    /\ pxlen \in PosLens(ncharges)
    /\ pylen \in PosLens(ncharges)
    /\ pzlen \in PosLens(ncharges)
    /\ junk \in IF pxlen < ncharges \/ pylen < ncharges \/ pzlen < ncharges
                THEN JunkVals ELSE {0}
    /\ oob = FALSE
    /\ S = <<>> /\ T = <<>> /\ V = <<>> /\ Vn = <<>>
    /\ next_iter = 0
    /\ running = {}
    /\ acc = {}
    /\ tedouble = <<>>
    /\ jobs = <<>>
    /\ ci = 0 /\ cj = 0 /\ ck = 0 /\ cl = 0
    /\ jstage = "loop" /\ jkey = SzZero
    /\ te_acc = {}
    /\ results = <<>>

\* lines 41-50: the matrices are allocated and zeroed, the pair phase opens
Enter ==
    /\ pc = "call"
    /\ S' = ZeroMatrix(sz)
    /\ T' = ZeroMatrix(sz)
    /\ V' = ZeroMatrix(sz)
    /\ Vn' = [k \in 0 .. ncharges - 1 |-> ZeroMatrix(sz)]
    /\ next_iter' = 0
    /\ pc' = "pair"
    /\ UNCHANGED <<ovars, inputs, oob, running, acc, tedouble, jobs, cursor, te_acc, results>>

\* first value of the inner loop variable j for outer index i (line 55)
JStart_zero(i) == 0
JStart(i) == i

\* S(i,j) = S(j,i) = v stores v into (j,i) first ...
FirstCell_same(i, j) == <<i, j>>
FirstCell(i, j) == <<j, i>>

\* ... and then copies what (j,i) holds to (i,j)
SecondCell_same(i, j) == <<j, i>>
SecondCell(i, j) == <<i, j>>

Access(m, c, t, w) == [mat |-> m, cell |-> c, task |-> t, wr |-> w]

\* where a thread goes after the last statement of the body for (task, j):
\* the next j, or out of the iteration
NextJ(r) ==
    IF r.j + 1 < sz THEN {[r EXCEPT !.j = r.j + 1, !.k = 0, !.ph = "S1"]}
    ELSE {}

\* a free thread takes the next iteration of the pair loop (schedule(dynamic))
PairGrab ==
    /\ pc = "pair"
    /\ FreeThread
    /\ next_iter < sz
    /\ running' = running \cup
                 (IF JStart(next_iter) < sz
                  THEN {[task |-> next_iter, j |-> JStart(next_iter), k |-> 0,
                         ph |-> "S1"]}
                  ELSE {})
    /\ next_iter' = next_iter + 1
    /\ UNCHANGED <<ovars, pc, inputs, oob, mats, acc, tedouble, jobs, cursor, te_acc, results>>

\* line 56: S(i,j) = S(j,i) = overlap(cgfs[i], cgfs[j])
PairOverlap(r) ==
    LET i == r.task  j == r.j IN
    /\ pc = "pair"
    /\ r.ph \in {"S1", "S2"}
    /\ IF r.ph = "S1"
       THEN /\ S' = [S EXCEPT ![FirstCell(i, j)] = overlapVal(i, j)]
            /\ acc' = acc \cup {Access(<<"S", 0>>, FirstCell(i, j), i, TRUE)}
            /\ running' = (running \ {r}) \cup {[r EXCEPT !.ph = "S2"]}
       ELSE /\ S' = [S EXCEPT ![SecondCell(i, j)] = S[FirstCell(i, j)]]
            /\ acc' = acc \cup {Access(<<"S", 0>>, FirstCell(i, j), i, FALSE),
                                Access(<<"S", 0>>, SecondCell(i, j), i, TRUE)}
            /\ running' = (running \ {r}) \cup {[r EXCEPT !.ph = "T1"]}
    /\ UNCHANGED <<ovars, pc, inputs, oob, T, V, Vn, next_iter, tedouble, jobs, cursor,
                   te_acc, results>>

\* line 57: T(i,j) = T(j,i) = kinetic(cgfs[i], cgfs[j])
PairKinetic(r) ==
    LET i == r.task  j == r.j IN
    /\ pc = "pair"
    /\ r.ph \in {"T1", "T2"}
    /\ IF r.ph = "T1"
       THEN /\ T' = [T EXCEPT ![FirstCell(i, j)] = kineticVal(i, j)]
            /\ acc' = acc \cup {Access(<<"T", 0>>, FirstCell(i, j), i, TRUE)}
            /\ running' = (running \ {r}) \cup {[r EXCEPT !.ph = "T2"]}
       ELSE /\ T' = [T EXCEPT ![SecondCell(i, j)] = T[FirstCell(i, j)]]
            /\ acc' = acc \cup {Access(<<"T", 0>>, FirstCell(i, j), i, FALSE),
                                Access(<<"T", 0>>, SecondCell(i, j), i, TRUE)}
            /\ running' = (running \ {r}) \cup
                         (IF 0 < ncharges THEN {[r EXCEPT !.k = 0, !.ph = "V1"]}
                          ELSE NextJ(r))
    /\ UNCHANGED <<ovars, pc, inputs, oob, S, V, Vn, next_iter, tedouble, jobs, cursor,
                   te_acc, results>>

\* px[k], py[k], pz[k] are all inside their vectors
InBounds(k) == k < pxlen /\ k < pylen /\ k < pzlen

\* line 60: Vn[k](i,j) = Vn[k](j,i) = nuclear(cgfs[i], cgfs[j],
\*          vec3(px[k], py[k], pz[k]), charges[k]).
\* operator[] is unchecked: a read behind the end of px, py or pz is undefined
\* behaviour; it either faults or yields whatever lies there.
PairNuclear(r) ==
    LET i == r.task  j == r.j  k == r.k IN
    /\ pc = "pair"
    /\ r.ph \in {"V1", "V2"}
    /\ IF r.ph = "V1"
       THEN \/ /\ Vn' = [Vn EXCEPT ![k][FirstCell(i, j)] =
                            nuclearVal(i, j, k, IF InBounds(k) THEN 0 ELSE junk)]
               /\ acc' = acc \cup {Access(<<"Vn", k>>, FirstCell(i, j), i, TRUE)}
               /\ running' = (running \ {r}) \cup {[r EXCEPT !.ph = "V2"]}
               /\ oob' = (oob \/ ~ InBounds(k))
               /\ pc' = pc
            \/ /\ ~ InBounds(k)
               /\ oob' = TRUE
               /\ pc' = "crashed"
               /\ UNCHANGED <<Vn, acc, running>>
       ELSE /\ Vn' = [Vn EXCEPT ![k][SecondCell(i, j)] = Vn[k][FirstCell(i, j)]]
            /\ acc' = acc \cup {Access(<<"Vn", k>>, FirstCell(i, j), i, FALSE),
                                Access(<<"Vn", k>>, SecondCell(i, j), i, TRUE)}
            /\ running' = (running \ {r}) \cup
                         (IF k + 1 < ncharges THEN {[r EXCEPT !.k = k + 1, !.ph = "V1"]}
                          ELSE NextJ(r))
            /\ UNCHANGED <<oob, pc>>
    /\ UNCHANGED <<ovars, inputs, S, T, V, next_iter, tedouble, jobs, cursor,
                   te_acc, results>>

RECURSIVE SumOver(_, _, _, _)
\* V(i,j) += Vn[k](i,j) for k = from .. ncharges-1, in this order (line 69)
SumOver(v, c, from, sofar) ==
    IF from >= ncharges THEN sofar
    ELSE SumOver(v, c, from + 1, sofar + v[from][c])

\* the implicit barrier at the end of the first parallel region (line 63):
\* every iteration was handed out and every thread has left the loop
PairDone_nobarrier == next_iter >= sz
PairDone == next_iter >= sz /\ running = {}

\* end of the first parallel region, then lines 66-72
PairJoinAndSum ==
    /\ pc = "pair"
    /\ PairDone
    /\ V' = [c \in Cells(sz) |-> SumOver(Vn, c, 0, V[c])]
    /\ next_iter' = 0
    /\ pc' = "alloc"
    /\ UNCHANGED <<ovars, inputs, oob, S, T, Vn, running, acc, tedouble, jobs,
                   cursor, te_acc, results>>

\* teindex(sz-1,sz-1,sz-1,sz-1)
TeSize_exact(n) ==
    LET d == SzDec(SzOf(n)) IN teindex(d, d, d, d)

\* teindex(sz-1,sz-1,sz-1,sz-1) + 2
TeSize_plus2(n) ==
    LET d == SzDec(SzOf(n)) IN SzAdd(teindex(d, d, d, d), SzOf(2))

\* teindex(sz-1,sz-1,sz-1,sz-1) + 1, the length of tedouble (line 75)
TeSize(n) ==
    LET d == SzDec(SzOf(n)) IN SzAdd(teindex(d, d, d, d), SzOne)

\* largest vector length the model allocates; a longer one fails with bad_alloc
AllocLimit == 4096

\* line 75: std::vector<double> tedouble(teindex(sz-1,sz-1,sz-1,sz-1) + 1, -1.0)
AllocTe ==
    /\ pc = "alloc"
    /\ IF SzFits(TeSize(sz)) /\ SzNat(TeSize(sz)) <= AllocLimit
       THEN /\ tedouble' = [n \in 1 .. SzNat(TeSize(sz)) |-> Sentinel]
            /\ pc' = "jobs"
       ELSE /\ tedouble' = tedouble
            /\ pc' = "error"
    /\ ci' = 0 /\ cj' = 0 /\ ck' = 0 /\ cl' = 0
    /\ jstage' = "loop" /\ jkey' = SzZero
    /\ jobs' = <<>>
    /\ UNCHANGED <<ovars, inputs, oob, mats, next_iter, running, acc, te_acc, results>>

\* the test of line 86 on the raw compound indices
Admitted_strict(ij, kl) == SzLt(ij, kl)
Admitted(ij, kl) == SzLe(ij, kl)

\* the test of line 93: the slot still holds the initial fill
Unseen_always(v) == TRUE
Unseen_positive(v) == v > 0
Unseen(v) == v < 0

\* the loop variables after one more pass of the innermost body (lines 80-84)
Advance ==
    IF cl + 1 < sz THEN <<ci, cj, ck, cl + 1>>
    ELSE IF ck + 1 < sz THEN <<ci, cj, ck + 1, 0>>
    ELSE IF cj + 1 < sz THEN <<ci, cj + 1, 0, 0>>
    ELSE <<ci + 1, 0, 0, 0>>

\* the statement that follows the computation of idx (line 87): the test
\* of line 89
AfterKey_probe == "probe"
AfterKey == "check"

\* lines 80-87: the loop heads, the compound indices, the test of line 86
\* and the key
JobTest ==
    LET ij == Compound(SzOf(ci), SzOf(cj))
        kl == Compound(SzOf(ck), SzOf(cl))
    IN
    /\ pc = "jobs"
    /\ jstage = "loop"
    /\ ci < sz
    /\ IF Admitted(ij, kl)
       THEN /\ jkey' = teindex(SzOf(ci), SzOf(cj), SzOf(ck), SzOf(cl))
            /\ jstage' = AfterKey
            /\ UNCHANGED <<ci, cj, ck, cl>>
       ELSE /\ ci' = Advance[1] /\ cj' = Advance[2]
            /\ ck' = Advance[3] /\ cl' = Advance[4]
            /\ UNCHANGED <<jstage, jkey>>
    /\ UNCHANGED <<ovars, pc, inputs, oob, mats, next_iter, running, acc, tedouble, jobs,
                   te_acc, results>>

\* lines 89-91: if(idx >= tedouble.size()) throw std::runtime_error(...)
JobCheck ==
    /\ pc = "jobs"
    /\ jstage = "check"
    /\ IF ~ SzLt(jkey, SzOf(Len(tedouble)))
       THEN pc' = "error" /\ jstage' = jstage
       ELSE pc' = pc /\ jstage' = "probe"
    /\ UNCHANGED <<ovars, inputs, oob, mats, next_iter, running, acc, tedouble, jobs,
                   ci, cj, ck, cl, jkey, te_acc, results>>

\* lines 93-96: the test for the initial fill, the mark and the new job;
\* a key beyond the end of tedouble reads and writes foreign memory
JobProbe ==
    /\ pc = "jobs"
    /\ jstage = "probe"
    /\ IF SzLt(jkey, SzOf(Len(tedouble)))
       THEN /\ IF Unseen(tedouble[SzNat(jkey) + 1])
               THEN /\ tedouble' = [tedouble EXCEPT ![SzNat(jkey) + 1] = Marker]
                    /\ jobs' = Append(jobs, <<SzNat(jkey), ci, cj, ck, cl>>)
               ELSE UNCHANGED <<tedouble, jobs>>
            /\ ci' = Advance[1] /\ cj' = Advance[2]
            /\ ck' = Advance[3] /\ cl' = Advance[4]
            /\ jstage' = "loop"
            /\ pc' = pc
       ELSE /\ \/ pc' = "crashed" /\ jobs' = jobs
               \/ pc' = "corrupted" /\ jobs' \in {jobs, Append(jobs, <<jkey, ci, cj, ck, cl>>)}
            /\ UNCHANGED <<tedouble, ci, cj, ck, cl, jstage>>
    /\ UNCHANGED <<ovars, inputs, oob, mats, next_iter, running, acc, jkey, te_acc, results>>

\* line 101: the outermost loop of the job construction ends
JobsDone ==
    /\ pc = "jobs"
    /\ jstage = "loop"
    /\ ci >= sz
    /\ pc' = "rep"
    /\ UNCHANGED <<ovars, inputs, oob, mats, next_iter, running, acc, tedouble, jobs, cursor,
                   te_acc, results>>

\* the second parallel region (line 104) stands after the job loop
RepOpen_early == pc \in {"jobs", "rep"}
RepOpen == pc = "rep"

\* a free thread takes the next job (schedule(dynamic), line 105)
RepGrab ==
    /\ RepOpen
    /\ FreeThread
    /\ next_iter < Len(jobs)
    /\ running' = running \cup {[task |-> next_iter, j |-> 0, k |-> 0, ph |-> "R"]}
    /\ next_iter' = next_iter + 1
    /\ UNCHANGED <<ovars, pc, inputs, oob, mats, acc, tedouble, jobs, cursor, te_acc,
                   results>>

\* lines 106-111: tedouble[idx] = repulsion(cgfs[i], cgfs[j], cgfs[k], cgfs[l])
RepStore(r) ==
    LET s == r.task
        job == jobs[s + 1]
    IN
    /\ RepOpen
    /\ r.ph = "R"
    /\ tedouble' = [tedouble EXCEPT ![job[1] + 1] =
                        repulsionVal(job[2], job[3], job[4], job[5])]
    /\ te_acc' = te_acc \cup {[slot |-> job[1], task |-> s]}
    /\ running' = running \ {r}
    /\ UNCHANGED <<ovars, pc, inputs, oob, mats, next_iter, acc, jobs, cursor, results>>

\* offset of M(r,c) in M.data(): Eigen::MatrixXd stores column by column
DataOffset(r, c) == c * sz + r

\* std::vector<double>(M.data(), M.data() + sz*sz)  (lines 116, 119, 122)
MatData(M) ==
    [n \in 1 .. sz * sz |->
        M[CHOOSE c \in Cells(sz) : DataOffset(c[1], c[2]) = n - 1]]

\* end of the second parallel region (implicit barrier), then lines 116-127
RepJoinAndPack ==
    /\ pc = "rep"
    /\ next_iter >= Len(jobs)
    /\ running = {}
    /\ results' = MatData(S) \o MatData(T) \o MatData(V) \o tedouble
    /\ pc' = "done"
    /\ UNCHANGED <<ovars, inputs, oob, mats, next_iter, running, acc, tedouble, jobs, cursor,
                   te_acc>>

Next ==
    \/ Enter
    \/ PairGrab
    \/ \E r \in running : PairOverlap(r)
    \/ \E r \in running : PairKinetic(r)
    \/ \E r \in running : PairNuclear(r)
    \/ PairJoinAndSum
    \/ AllocTe
    \/ JobTest
    \/ JobCheck
    \/ JobProbe
    \/ JobsDone
    \/ RepGrab
    \/ \E r \in running : RepStore(r)
    \/ RepJoinAndPack

Spec == Init /\ [][Next]_vars

\* ------------------------------------------------------------------ claims
\* the eight index orders related by the symmetry of (ij|kl)
Perms8(q) ==
    { <<q[1], q[2], q[3], q[4]>>, <<q[2], q[1], q[3], q[4]>>,
      <<q[1], q[2], q[4], q[3]>>, <<q[2], q[1], q[4], q[3]>>,
      <<q[3], q[4], q[1], q[2]>>, <<q[4], q[3], q[1], q[2]>>,
      <<q[3], q[4], q[2], q[1]>>, <<q[4], q[3], q[2], q[1]>> }

\* C1: teindex returns the same key for all eight symmetry-related orders of
\* its arguments (i,j,k,l), (j,i,k,l), (i,j,l,k), (j,i,l,k), (k,l,i,j),
\* (l,k,i,j), (k,l,j,i), (l,k,j,i).
C1_TeindexSymmetric ==
    te_pc = "returned" =>
        \A p \in Perms8(te_args) : teindex(p[1], p[2], p[3], p[4]) = te_ret

\* a call with four pairwise different indices has returned
C1_Witness ==
    /\ te_pc = "returned"
    /\ Cardinality({te_args[1], te_args[2], te_args[3], te_args[4]}) = 4
    /\ SzLt(te_args[1], te_args[2])
    /\ SzLt(te_args[3], te_args[4])
    /\ SzLt(Compound(te_args[2], te_args[1]), Compound(te_args[4], te_args[3]))
\* ------------------------------------------------------------ evaluate_cgfs
Quads(n) == (0 .. n - 1) \X (0 .. n - 1) \X (0 .. n - 1) \X (0 .. n - 1)

\* the slot of a quadruple of basis indices
Slot(q) == SzNat(teindex(SzOf(q[1]), SzOf(q[2]), SzOf(q[3]), SzOf(q[4])))

\* entry idx of the two-electron block of the returned vector
TeResult(idx) == results[3 * sz * sz + idx + 1]

\* C2: in the returned array the slot of every quadruple (a,b,c,d) below N
\* holds the repulsion value evaluated for one of the eight symmetry
\* permutations of (a,b,c,d), and every job sits in the slot of its own
\* quadruple: symmetry-inequivalent quadruples never share a slot.
C2_SlotHoldsOwnClass ==
    pc = "done" =>
        /\ \A q \in Quads(sz) :
              \E p \in Perms8(q) :
                  TeResult(Slot(q)) = repulsionVal(p[1], p[2], p[3], p[4])
        /\ \A s \in 1 .. Len(jobs) :
              jobs[s][1] = Slot(<<jobs[s][2], jobs[s][3], jobs[s][4], jobs[s][5]>>)

\* the call has returned and the slot of (1,0,1,0) holds the value that was
\* evaluated for the non-canonical order (0,1,0,1)
C2_Witness ==
    /\ pc = "done"
    /\ sz >= 2
    /\ TeResult(Slot(<<1, 0, 1, 0>>)) = repulsionVal(0, 1, 0, 1)

\* C3: the number of jobs built for a basis set of size N equals the number of
\* distinct keys teindex takes over all N^4 quadruples, although the loop
\* admits a quadruple by its raw (unordered) compound indices.
C3_JobCount ==
    pc = "done" =>
        Len(jobs) = Cardinality({ Slot(q) : q \in Quads(sz) })

\* the call has returned and the job list contains a job whose pair (i,j) is not
\* ordered i >= j, and fewer jobs than quadruples
C3_Witness ==
    /\ pc = "done"
    /\ \E s \in 1 .. Len(jobs) : jobs[s][2] < jobs[s][3]
    /\ Len(jobs) < sz * sz * sz * sz

\* C4: no two jobs carry the same slot, and in the repulsion phase every slot
\* of tedouble is written by at most one task (the tasks read no slot).
C4_DisjointSlots ==
    /\ Cardinality({ jobs[s][1] : s \in 1 .. Len(jobs) }) = Len(jobs)
    /\ Cardinality({ a.slot : a \in te_acc }) = Cardinality(te_acc)
    /\ \A r \in running : r.ph = "R" =>
          \A a \in te_acc : a.slot = jobs[r.task + 1][1] => a.task = r.task

\* two repulsion tasks are in flight at once and another one has stored
C4_Witness ==
    /\ pc = "rep"
    /\ Cardinality(running) >= 2
    /\ te_acc # {}

C6_JobsBeforeRepulsion ==
    [][ /\ pc = "jobs" =>
              /\ running = {}
              /\ te_acc = {}
              /\ \A n \in DOMAIN tedouble : tedouble[n] \in {Sentinel, Marker}
        /\ (te_acc # {} \/ \E r \in running : r.ph = "R") =>
              /\ ci >= sz
              /\ jobs' = jobs
              /\ cursor' = cursor ]_vars

\* a repulsion task has stored its value while other jobs are still waiting
C6_Witness ==
    /\ pc = "rep"
    /\ te_acc # {}
    /\ next_iter < Len(jobs)
    /\ \E n \in DOMAIN tedouble : tedouble[n] = Marker

\* C7: after the call has returned S, T and V are symmetric.
C7_Symmetric ==
    pc = "done" =>
        \A c \in Cells(sz) :
            /\ S[c] = S[<<c[2], c[1]>>]
            /\ T[c] = T[<<c[2], c[1]>>]
            /\ V[c] = V[<<c[2], c[1]>>]

\* the call has returned for at least two functions and one charge; the
\* off-diagonal cells hold the value computed for (0,1), not for (1,0)
C7_Witness ==
    /\ pc = "done"
    /\ sz >= 2
    /\ ncharges >= 1
    /\ S[<<1, 0>>] = overlapVal(0, 1)
    /\ S[<<1, 0>>] # overlapVal(1, 0)
    /\ V[<<1, 0>>] # 0

\* the values a matrix holds
Range(M) == { M[c] : c \in DOMAIN M }

\* C8: for N >= 1 the returned vector has length
\* 3*N^2 + teindex(N-1,N-1,N-1,N-1) + 1 and consists of N^2 entries of S, then
\* N^2 of T, then N^2 of V, then the whole two-electron array.
C8_ResultLayout ==
    (pc = "done" /\ sz >= 1) =>
        /\ Len(results) = 3 * sz * sz + Slot(<<sz - 1, sz - 1, sz - 1, sz - 1>>) + 1
        /\ \A n \in 1 .. sz * sz :
              /\ results[n] \in Range(S)
              /\ results[sz * sz + n] \in Range(T)
              /\ results[2 * sz * sz + n] \in Range(V)
        /\ \A n \in 1 .. Len(tedouble) : results[3 * sz * sz + n] = tedouble[n]

\* the call has returned for two functions: 3*4 + (teindex(1,1,1,1) + 1) = 18
C8_Witness ==
    /\ pc = "done"
    /\ sz = 2
    /\ Len(results) = 18

\* C9: inside the S, T and V blocks of the returned vector the entry at
\* offset i*N + j is M(i,j).
C9_RowMajor ==
    pc = "done" =>
        \A c \in Cells(sz) :
            /\ results[c[1] * sz + c[2] + 1] = S[c]
            /\ results[sz * sz + c[1] * sz + c[2] + 1] = T[c]
            /\ results[2 * sz * sz + c[1] * sz + c[2] + 1] = V[c]

\* the call has returned and offset 0*N + 1 of the S block holds S(0,1)
C9_Witness ==
    /\ pc = "done"
    /\ sz >= 2
    /\ results[2] = overlapVal(0, 1)
    /\ S[<<0, 1>>] = overlapVal(0, 1)

\* a position vector is shorter than charges
ShortPositions == pxlen < ncharges \/ pylen < ncharges \/ pzlen < ncharges

\* C10: with a position vector shorter than charges the call fails with an
\* error and returns no result, and no position is ever read behind the end
\* of px, py or pz.
C10_FailFast ==
    /\ ~ oob
    /\ ShortPositions => (pc # "done" /\ results = <<>>)

RECURSIVE VnTotal(_, _)
\* Vn[0](c) + ... + Vn[k-1](c)
VnTotal(c, k) == IF k = 0 THEN 0 ELSE VnTotal(c, k - 1) + Vn[k - 1][c]

\* C12: the summation of the matrices Vn[k] into V starts only after every
\* task of the pair phase has finished: when it starts no iteration is in
\* flight and every cell of every Vn[k] has been written, no Vn[k] changes
\* afterwards, and on return V(i,j) is the sum over k of Vn[k](i,j), all
\* zero when there are no charges.
C12_SumAfterPairPhase ==
    [][ /\ (pc = "pair" /\ pc' = "alloc") =>
              /\ running = {}
              /\ \A k \in 0 .. ncharges - 1 : \A c \in Cells(sz) : Vn[k][c] # 0
              /\ \A c \in Cells(sz) : V'[c] = VnTotal(c, ncharges)
        /\ pc \notin {"call", "pair"} => Vn' = Vn
        /\ pc' = "done" =>
              /\ \A c \in Cells(sz) : V'[c] = VnTotal(c, ncharges)
              /\ ncharges = 0 => \A c \in Cells(sz) : V'[c] = 0 ]_vars

\* the call has returned for two functions and a charge read inside its
\* position vectors: V holds the nuclear values
C12_Witness ==
    /\ pc = "done"
    /\ sz >= 2
    /\ ncharges >= 1
    /\ ~ oob
    /\ V[<<0, 1>>] = nuclearVal(0, 1, 0, 0)
    /\ V[<<1, 1>>] = nuclearVal(1, 1, 0, 0)

\* the key of the largest index quadruple, teindex(sz-1, sz-1, sz-1, sz-1)
LastKey == LET d == SzDec(SzOf(sz)) IN teindex(d, d, d, d)

\* C19: for N >= 1 and all i, j, k, l below N, teindex(i,j,k,l) is at most
\* teindex(N-1,N-1,N-1,N-1); every key the job loop computes is below the
\* size of tedouble and the job loop never leaves through the error
\* 'Process tried to access illegal array position'.
C19_KeyBelowSize ==
    /\ (pc = "jobs" /\ jstage \in {"check", "probe"}) =>
          /\ sz >= 1
          /\ SzLe(jkey, LastKey)
          /\ SzLt(jkey, SzOf(Len(tedouble)))
    /\ ~ (pc = "error" /\ jstage = "check")
    /\ (pc = "done" /\ sz >= 1) =>
          \A q \in Quads(sz) :
              SzLe(teindex(SzOf(q[1]), SzOf(q[2]), SzOf(q[3]), SzOf(q[4])), LastKey)

\* the test of line 89 is reached with the largest key, one below the size
C19_Witness ==
    /\ pc = "jobs"
    /\ jstage = "check"
    /\ sz >= 2
    /\ jkey = LastKey
    /\ SzNat(jkey) + 1 = Len(tedouble)

\* C20: for N >= 1 every slot 0 .. teindex(N-1,N-1,N-1,N-1) of tedouble
\* receives exactly one job; on return no slot holds the initial fill -1.0
\* or the mark 1.0: each was overwritten by the repulsion task of its job.
C20_EverySlotFilled ==
    /\ (pc = "done" /\ sz >= 1) =>
          /\ Len(tedouble) = SzNat(LastKey) + 1
          /\ \A n \in DOMAIN tedouble :
                Cardinality({m \in DOMAIN jobs : jobs[m][1] = n - 1}) = 1
          /\ \A n \in DOMAIN tedouble :
                /\ tedouble[n] \notin {Sentinel, Marker}
                /\ \E a \in te_acc :
                      /\ a.slot = n - 1
                      /\ jobs[a.task + 1][1] = n - 1
                      /\ tedouble[n] = repulsionVal(jobs[a.task + 1][2], jobs[a.task + 1][3],
                                                    jobs[a.task + 1][4], jobs[a.task + 1][5])

\* the call has returned for two functions: six slots, the last one holds
\* the value of (11|11)
C20_Witness ==
    /\ pc = "done"
    /\ sz = 2
    /\ Len(tedouble) = 6
    /\ Len(jobs) = 6
    /\ tedouble[6] = repulsionVal(1, 1, 1, 1)

\* the passes of the double loop over the primitives of cgf1 and cgf2
PrimPairs == (0 .. call_args.size[1] - 1) \X (0 .. call_args.size[2] - 1)

\* the evaluations made in pass `at' of the loops
EvalsAt(at) == { e \in call_trace : e.at = at }

\* C14: overlap_deriv and kinetic_deriv of two contracted functions return
\* exactly 0.0 without evaluating a primitive kernel when both operands are
\* attached to the differentiation nucleus or neither is; when exactly one
\* is, every pair of primitives contributes exactly one term, the primitive
\* derivative with the attached operand's primitive as first argument.
C14_PairDerivOneSided ==
    (call_pc = "returned" /\ call_fn \in {"overlap_deriv", "kinetic_deriv"}) =>
        LET a1 == Attached(call_args.r[1], call_args.nucleus)
            a2 == Attached(call_args.r[2], call_args.nucleus)
        IN  /\ a1 = a2 => call_trace = {} /\ call_ret = "0.0"
            /\ a1 # a2 =>
                  /\ \A e \in call_trace : e.at \in PrimPairs
                  /\ \A kl \in PrimPairs :
                        EvalsAt(kl) =
                            { [fn |-> call_fn, t |-> IF a1 THEN 1 ELSE 2, at |-> kl,
                               args |-> IF a1 THEN <<<<1, kl[1]>>, <<2, kl[2]>>>>
                                        ELSE <<<<2, kl[2]>>, <<1, kl[1]>>>>] }

\* overlap_deriv has returned with only the second operand attached: one
\* term for each of the four pairs of primitives
C14_Witness ==
    /\ call_pc = "returned"
    /\ call_fn = "overlap_deriv"
    /\ ~ Attached(call_args.r[1], call_args.nucleus)
    /\ Attached(call_args.r[2], call_args.nucleus)
    /\ call_args.size = <<2, 2>>
    /\ Cardinality(call_trace) = 4
    /\ call_ret = "sum"

\* C15 as stated: in nuclear_deriv the contribution of the shifted basis
\* functions (t1 and t2) is forced to zero when both operands are attached
\* to the differentiation nucleus and when neither is.
C15_BfZeroWhenBothOrNeither ==
    (call_pc = "returned" /\ call_fn = "nuclear_deriv") =>
        LET n1 == Attached(call_args.r[1], call_args.nucderiv)
            n2 == Attached(call_args.r[2], call_args.nucderiv)
        IN  n1 = n2 => \A e \in call_trace : e.fn # "nuclear_deriv_bf"

\* C15, amended: in nuclear_deriv the contribution of the shifted basis
\* functions is zero only when neither operand is attached to the
\* differentiation nucleus; t1 is evaluated for every pair of primitives when
\* the first operand is attached and t2 when the second is, so with both
\* attached both are evaluated and added.
C15_BfZeroOnlyWhenNeither ==
    (call_pc = "returned" /\ call_fn = "nuclear_deriv") =>
        LET n1 == Attached(call_args.r[1], call_args.nucderiv)
            n2 == Attached(call_args.r[2], call_args.nucderiv)
        IN  \A kl \in PrimPairs :
                { e \in EvalsAt(kl) : e.fn = "nuclear_deriv_bf" } =
                    (IF n1 THEN {[fn |-> "nuclear_deriv_bf", t |-> 1, at |-> kl,
                                  args |-> <<<<1, kl[1]>>, <<2, kl[2]>>>>]}
                     ELSE {})
                    \cup
                    (IF n2 THEN {[fn |-> "nuclear_deriv_bf", t |-> 2, at |-> kl,
                                  args |-> <<<<2, kl[2]>>, <<1, kl[1]>>>>]}
                     ELSE {})

\* nuclear_deriv has returned with both operands attached and the attraction
\* centre elsewhere: two terms for the one pair of primitives
C15_Witness ==
    /\ call_pc = "returned"
    /\ call_fn = "nuclear_deriv"
    /\ Attached(call_args.r[1], call_args.nucderiv)
    /\ Attached(call_args.r[2], call_args.nucderiv)
    /\ ~ Attached(call_args.nucleus, call_args.nucderiv)
    /\ call_args.size = <<1, 1>>
    /\ Cardinality(call_trace) = 2
    /\ call_ret = "sum"

\* C16: in nuclear_deriv the operator-centre term nuclear_deriv_op is
\* evaluated and added for a pair of primitives exactly when the attraction
\* centre coincides with the differentiation nucleus; when the attraction
\* centre and both operands are away from it the result is 0.
C16_OperatorTerm ==
    (call_pc = "returned" /\ call_fn = "nuclear_deriv") =>
        LET n1 == Attached(call_args.r[1], call_args.nucderiv)
            n2 == Attached(call_args.r[2], call_args.nucderiv)
            n3 == Attached(call_args.nucleus, call_args.nucderiv)
        IN  /\ \A kl \in PrimPairs :
                  { e \in EvalsAt(kl) : e.fn = "nuclear_deriv_op" } =
                      (IF n3 THEN {[fn |-> "nuclear_deriv_op", t |-> 3, at |-> kl,
                                    args |-> <<<<1, kl[1]>>, <<2, kl[2]>>>>]}
                       ELSE {})
            /\ (~ n1 /\ ~ n2 /\ ~ n3) => call_trace = {} /\ call_ret = "0.0"

\* nuclear_deriv has returned with the attraction centre on the
\* differentiation nucleus and both operands away: the operator terms alone
C16_Witness ==
    /\ call_pc = "returned"
    /\ call_fn = "nuclear_deriv"
    /\ ~ Attached(call_args.r[1], call_args.nucderiv)
    /\ ~ Attached(call_args.r[2], call_args.nucderiv)
    /\ Attached(call_args.nucleus, call_args.nucderiv)
    /\ call_args.size = <<2, 1>>
    /\ Cardinality(call_trace) = 2
    /\ \A e \in call_trace : e.fn = "nuclear_deriv_op"

\* the passes of the quadruple loop of repulsion_deriv
PrimQuads ==
    (0 .. call_args.size[1] - 1) \X (0 .. call_args.size[2] - 1) \X
    (0 .. call_args.size[3] - 1) \X (0 .. call_args.size[4] - 1)

\* C17: repulsion_deriv of four contracted functions returns 0.0 whenever
\* none of the four operands is attached to the differentiation nucleus; in
\* the terms it evaluates a slot contributes only if its function is
\* attached, and the primitive that is raised and lowered, the first
\* argument of the primitive derivative, is that slot's primitive.
C17_RepulsionDerivSlots ==
    (call_pc = "returned" /\ call_fn = "repulsion_deriv") =>
        LET a == [c \in 1 .. 4 |-> Attached(call_args.r[c], call_args.nucleus)]
        IN  /\ (\A c \in 1 .. 4 : ~ a[c]) => call_trace = {} /\ call_ret = "0.0"
            /\ \A e \in call_trace :
                  /\ e.at \in PrimQuads
                  /\ a[e.t]
                  /\ e.args[1] = <<e.t, e.at[e.t]>>
                  /\ { e.args[n][1] : n \in 1 .. 4 } = 1 .. 4
                  /\ \A n \in 1 .. 4 : e.args[n][2] = e.at[e.args[n][1]]
            /\ call_trace # {} =>
                  \A q \in PrimQuads : \A c \in 1 .. 4 :
                      a[c] => \E e \in EvalsAt(q) : e.t = c

\* repulsion_deriv has returned with only the fourth operand attached: one
\* term for each quadruple of primitives, led by the fourth slot's primitive
C17_Witness ==
    /\ call_pc = "returned"
    /\ call_fn = "repulsion_deriv"
    /\ Attached(call_args.r[4], call_args.nucleus)
    /\ \A c \in 1 .. 3 : ~ Attached(call_args.r[c], call_args.nucleus)
    /\ call_args.size = <<1, 2, 1, 2>>
    /\ Cardinality(call_trace) = 4
    /\ \E e \in call_trace : e.args[1] = <<4, 1>>

\* C18: binomial_prefactor never calls binomial outside its domain: for
\* every s >= 0 and all integers ia, ib, negative ones included, it adds a
\* term for t exactly when max(0, s-ia) <= t <= min(s, ib), and in each such
\* term binomial(ia, s-t) and binomial(ib, t) have non-negative arguments
\* with the first at least the second, so the return of 1.0 is never taken.
C18_BinomialInDomain ==
    (call_pc = "returned" /\ call_fn = "binomial_prefactor") =>
        LET s == call_args.s  ia == call_args.ia  ib == call_args.ib
            lo == IF s - ia > 0 THEN s - ia ELSE 0
            hi == IF s < ib THEN s ELSE ib
        IN  /\ { e.t : e \in call_trace } = lo .. hi
            /\ \A e \in call_trace :
                  /\ e.first = <<ia, s - e.t>> /\ e.second = <<ib, e.t>>
                  /\ e.first[1] >= 0 /\ e.first[2] >= 0 /\ e.first[1] >= e.first[2]
                  /\ e.second[1] >= 0 /\ e.second[2] >= 0 /\ e.second[1] >= e.second[2]
                  /\ ~ e.fallback

\* binomial_prefactor(2, 1, 2, ..) has returned: the terms t = 1 and t = 2
\* were added, the term t = 0 (s - t > ia) was skipped
C18_Witness ==
    /\ call_pc = "returned"
    /\ call_fn = "binomial_prefactor"
    /\ call_args.s = 2 /\ call_args.ia = 1 /\ call_args.ib = 2
    /\ { e.t : e \in call_trace } = {1, 2}

\* l + m + n of an angular triple
TotalL(g) == g[1] + g[2] + g[3]

\* the largest total angular momentum of the primitives of the call
Lmax ==
    CHOOSE m \in 0 .. MaxL :
        /\ \E n \in DOMAIN call_args.ang : TotalL(call_args.ang[n]) = m
        /\ \A n \in DOMAIN call_args.ang : TotalL(call_args.ang[n]) <= m

\* C13 as stated: every call of Fgamma made by a kernel (nuclear,
\* nuclear_deriv_op, repulsion and the derivative kernels that call them with
\* raised angular momentum) has an order between 0 and 4*Lmax, Lmax the
\* largest l + m + n of the primitives passed in.
C13_OrderUpTo4Lmax ==
    (call_pc = "returned" /\ call_fn \in FgFns) =>
        \A o \in call_trace : 0 <= o /\ o <= 4 * Lmax

\* C13, amended: every call of Fgamma made by a kernel has an order between
\* 0 and 4*Lmax + 1; the orders of nuclear and repulsion stay within
\* 2*Lmax and 4*Lmax, the derivative kernels nuclear_deriv_bf,
\* nuclear_deriv_op and repulsion_deriv reach one order more.
C13_OrderUpTo4LmaxPlus1 ==
    (call_pc = "returned" /\ call_fn \in FgFns) =>
        \A o \in call_trace :
            /\ 0 <= o
            /\ o <= 4 * Lmax + 1
            /\ call_fn = "nuclear" => o <= 2 * Lmax
            /\ call_fn = "repulsion" => o <= 4 * Lmax
            /\ call_fn \in {"nuclear_deriv_bf", "nuclear_deriv_op"} => o <= 2 * Lmax + 1

\* the primitive repulsion_deriv has returned for four primitives of total
\* angular momentum Lmax >= 1 along the axis of the derivative: it asked for
\* the order 4*Lmax + 1
C13_Witness ==
    /\ call_pc = "returned"
    /\ call_fn = "repulsion_deriv_gto"
    /\ Lmax >= 1
    /\ \A n \in 1 .. 4 : call_args.ang[n][call_args.coord + 1] = Lmax
    /\ (4 * Lmax + 1) \in call_trace

\* C23: for an empty basis set (N = 0) evaluate_cgfs returns an empty
\* sequence without an error: in arithmetic modulo 2^64
\* teindex(N-1,N-1,N-1,N-1) + 1 is 0, tedouble is empty, no job is created
\* and no array is accessed out of bounds.
C23_EmptyBasis ==
    sz = 0 =>
        /\ TeSize(sz) = SzZero
        /\ pc \notin {"error", "crashed", "corrupted"}
        /\ ~ oob
        /\ tedouble = <<>> /\ jobs = <<>>
        /\ acc = {} /\ te_acc = {} /\ running = {}
        /\ jstage = "loop"
        /\ results = <<>>

\* the call has returned for an empty basis set and a charge without a
\* position
C23_Witness ==
    /\ pc = "done"
    /\ sz = 0
    /\ ncharges >= 1
    /\ pxlen < ncharges
    /\ results = <<>>

\* the overlaps of term2 of kinetic whose lowered power of the second
\* orbital, l - 2 along the axis of the term, starts from l = 0 or l = 1
LoweredBelowZero == { e \in call_trace : e.term = "term2" /\ call_args.g2[e.axis] <= 1 }

\* C21: in kinetic of two primitives, when the power of the second orbital
\* along an axis is 0 or 1 the lowered term of that axis contributes exactly
\* zero: the unsigned l - 2 wraps and reaches overlap_1D as the negative int
\* l - 2, overlap_1D adds no term of binomial_prefactor and evaluates no
\* binomial out of its domain, it returns 0, and the coefficient l*(l-1)
\* is 0.
C21_LoweredTermZero ==
    (call_pc = "returned" /\ call_fn = "kinetic") =>
        \A e \in LoweredBelowZero :
            LET l == call_args.g2[e.axis] IN
            /\ e.arg[e.axis] = U32(SzDec(SzDec(SzOf(l))))
            /\ e.arg[e.axis][4] = SzBase - 1
            /\ e.w[e.axis].l2 = l - 2
            /\ e.w[e.axis].l2 < 0
            /\ e.w[e.axis].terms = {}
            /\ ~ e.w[e.axis].fallback
            /\ e.w[e.axis].ret = "0.0"
            /\ e.coef = SzZero
            /\ \A n \in 1 .. 3 : ~ e.w[n].fallback

\* kinetic has returned for a d-type first and an s-type second orbital:
\* overlap_1D(2, -2, ..) ran one pass of its loop and added no term
C21_Witness ==
    /\ call_pc = "returned"
    /\ call_fn = "kinetic"
    /\ call_args.g1[1] = 2
    /\ call_args.g2[1] = 0
    /\ \E e \in LoweredBelowZero :
          /\ e.axis = 1
          /\ e.w[1].l2 = -2
          /\ e.w[1].passes = {0}
          /\ e.w[1].terms = {}

\* the sum over the primitives of the call of their power along an axis
AxisSum(axis) ==
    IF call_fn = "repulsion"
    THEN call_args.ang[1][axis] + call_args.ang[2][axis]
         + call_args.ang[3][axis] + call_args.ang[4][axis]
    ELSE call_args.ang[1][axis] + call_args.ang[2][axis]

\* C22: for all non-negative angular momenta every index written in A_array
\* and A_array_deriv lies in 0 .. l1+l2 and every index written in B_array
\* lies in 0 .. l1+l2+l3+l4, inside the allocated array; every index read
\* from these arrays by nuclear, nuclear_deriv_op (coord 0, 1, 2) and
\* repulsion lies within the same bounds.
C22_ArrayIndicesInBounds ==
    (call_pc = "returned" /\ call_fn \in ArrFns) =>
        \A e \in call_trace :
            /\ e.size = AxisSum(e.axis) + 1
            /\ 0 <= e.idx
            /\ e.idx <= AxisSum(e.axis)
            /\ e.idx < e.size

\* repulsion has returned for four primitives with power 1 along x: the
\* first and the last of the five elements of bx were written and read
C22_Witness ==
    /\ call_pc = "returned"
    /\ call_fn = "repulsion"
    /\ \A n \in 1 .. 4 : call_args.ang[n][1] = 1
    /\ \A w \in BOOLEAN : \A k \in {0, 4} :
          \E e \in call_trace : e.arr = "bx" /\ e.idx = k /\ e.wr = w /\ e.size = 5

====
